---- MODULE Spec2Model ----
(***************************************************************************)
(* Model of split.py: the timestamp-config parser (process_conf), the      *)
(* timestamp conversion (time_stamp_to_seconds) and the part of main that  *)
(* calls the parser and hands the result to process_tracks.                *)
(*                                                                         *)
(* Text is modelled as a sequence of one-character strings.  An optional   *)
(* value (Python's None or a value) is a sequence of length 0 or 1.        *)
(***************************************************************************)
EXTENDS Integers, Sequences, FiniteSets, TLC

\* ---------------------------------------------------------------- bounds
\* Largest number of physical lines in a config file.
MaxLines == 3

\* Largest length of a string handed directly to time_stamp_to_seconds.
MaxTsLen == 9

\* Largest number of digits in a row in such a string.  Python's integers
\* are unbounded; this keeps every sum within TLC's 32-bit integers.
MaxDigits == 3

\* ------------------------------------------------------- optional values
None == <<>>

Some(v) == <<v>>

\* ------------------------------------------------------------ characters
Digits == {"0", "1", "2", "3", "4", "5", "6", "7", "8", "9"}

IsDigit(c) == c \in Digits

DigitVal(c) ==
  CASE c = "0" -> 0 [] c = "1" -> 1 [] c = "2" -> 2 [] c = "3" -> 3
    [] c = "4" -> 4 [] c = "5" -> 5 [] c = "6" -> 6 [] c = "7" -> 7
    [] c = "8" -> 8 [] c = "9" -> 9

\* Characters str.strip() removes (only the blank occurs in the inputs).
Whitespace == {" "}

\* The character at 1-based position i, or a marker past either end.
At(line, i) == IF i \in 1..Len(line) THEN line[i] ELSE "EOL"

SetMin(S) == CHOOSE x \in S : \A y \in S : x <= y

SetMax(S) == CHOOSE x \in S : \A y \in S : x >= y

\* str.strip(): drop leading and trailing whitespace.
Strip(line) ==
  LET keep == {i \in 1..Len(line) : line[i] \notin Whitespace}
  IN IF keep = {} THEN <<>> ELSE SubSeq(line, SetMin(keep), SetMax(keep))

\* int() of a non-empty run of decimal digits.
RECURSIVE IntOfDigits(_)
IntOfDigits(ds) ==
  IF ds = <<>> THEN 0
  ELSE 10 * IntOfDigits(SubSeq(ds, 1, Len(ds) - 1)) + DigitVal(ds[Len(ds)])

\* ------------------------------------------------------ regular expressions
\* One iteration of (\d{2}\:{0,1}) at position p: the position after it
\* (the colon is taken greedily), or 0 when two digits do not follow.
TsIter(line, p) ==
  IF IsDigit(At(line, p)) /\ IsDigit(At(line, p + 1))
  THEN (IF At(line, p + 2) = ":" THEN p + 3 ELSE p + 2)
  ELSE 0

\* ((\d{2}\:{0,1})+) matched greedily at p with nothing required after it:
\* the position after the longest match, or 0 for no match.
RECURSIVE TsGreedyEnd(_, _)
TsGreedyEnd(line, p) ==
  LET e == TsIter(line, p)
  IN IF e = 0 THEN 0
     ELSE LET e2 == TsGreedyEnd(line, e) IN IF e2 = 0 THEN e ELSE e2

\* Every position at which a match of ((\d{2}\:{0,1})+) starting at p can
\* end (the positions backtracking can give back).
RECURSIVE TsEnds(_, _)
TsEnds(line, p) ==
  IF ~(IsDigit(At(line, p)) /\ IsDigit(At(line, p + 1))) THEN {}
  ELSE LET base == {p + 2} \cup (IF At(line, p + 2) = ":" THEN {p + 3} ELSE {})
       IN base \cup UNION {TsEnds(line, e) : e \in base}

\* ( [-\|]) at position p.
IsSep(line, p) == At(line, p) = " " /\ At(line, p + 1) \in {"-", "|"}

NoMatch == [matched |-> FALSE, num |-> <<>>, title |-> <<>>, ts |-> <<>>]

\* The tail of CONFIG_PATTERN after (\d+) ended at q:
\* ( [-\|]){0,1} (.*?)( [-\|]){0,1} ((\d{2}\:{0,1})+), with the first
\* separator taken or not (sep1), the title ending before u, and the second
\* separator taken or not (sep2).
PrimaryTail(line, q, sep1, u, sep2) ==
  /\ sep1 => IsSep(line, q)
  /\ At(line, IF sep1 THEN q + 2 ELSE q) = " "
  /\ u >= (IF sep1 THEN q + 2 ELSE q) + 1
  /\ sep2 => IsSep(line, u)
  /\ At(line, IF sep2 THEN u + 2 ELSE u) = " "
  /\ TsGreedyEnd(line, (IF sep2 THEN u + 2 ELSE u) + 1) # 0

\* Ends of a run of digits started at d0.
NumEnds(line, d0) ==
  {q \in d0 + 1..Len(line) : \A k \in d0..q - 1 : IsDigit(line[k])}

\* Every way <<q, sep1, u, sep2>> CONFIG_PATTERN matches with (\d+)
\* starting at d0.
PrimaryCands(line, d0) ==
  {c \in NumEnds(line, d0) \X BOOLEAN
           \X {u \in 1..Len(line) : line[u] = " "} \X BOOLEAN :
     PrimaryTail(line, c[1], c[2], c[3], c[4])}

\* The order in which a backtracking matcher tries the ways: the longest
\* number, the first separator if possible, the shortest title, the second
\* separator if possible.
Better(c, d) ==
  \/ c[1] > d[1]
  \/ c[1] = d[1] /\ c[2] /\ ~d[2]
  \/ c[1] = d[1] /\ c[2] = d[2] /\ c[3] < d[3]
  \/ c[1] = d[1] /\ c[2] = d[2] /\ c[3] = d[3] /\ c[4] /\ ~d[4]

PrimaryBest(C) == CHOOSE c \in C : \A d \in C : c = d \/ Better(c, d)

\* The groups of the match made the way c; the timestamp, last in the
\* pattern, is the longest one.
PrimaryGroups(line, d0, c) ==
  [matched |-> TRUE,
   num     |-> SubSeq(line, d0, c[1] - 1),
   title   |-> SubSeq(line, (IF c[2] THEN c[1] + 2 ELSE c[1]) + 1, c[3] - 1),
   ts      |-> SubSeq(line, (IF c[4] THEN c[3] + 2 ELSE c[3]) + 1,
                      TsGreedyEnd(line, (IF c[4] THEN c[3] + 2 ELSE c[3]) + 1) - 1)]

PrimaryPick(line, d0, C) ==
  IF C = {} THEN NoMatch ELSE PrimaryGroups(line, d0, PrimaryBest(C))

PrimaryFrom(line, d0) == PrimaryPick(line, d0, PrimaryCands(line, d0))

\* CONFIG_PATTERN anchored at start position s; '#' is taken if present.
PrimaryAt(line, s) ==
  PrimaryFrom(line, IF At(line, s) = "#" THEN s + 1 ELSE s)

\* re.search(CONFIG_PATTERN, line): the match at the leftmost start position
\* (group 1 is num, group 3 is title, group 5 is ts).
CONFIG_PATTERN(line) ==
  LET S == {s \in 1..Len(line) : PrimaryAt(line, s).matched}
  IN IF S = {} THEN NoMatch ELSE PrimaryAt(line, SetMin(S))

\* Ends e of the timestamp started at s after which
\* ( [-\|]){0,1} (.*?)$ matches.
AltEnds(line, s) ==
  {e \in TsEnds(line, s) :
     \/ IsSep(line, e) /\ At(line, e + 2) = " "
     \/ At(line, e) = " "}

\* The groups of the match whose timestamp runs from s to before e: the
\* separator is taken if possible, the title runs to the end of the line.
AltGroups(line, s, e) ==
  [matched |-> TRUE,
   num     |-> <<>>,
   title   |-> SubSeq(line,
                      IF IsSep(line, e) /\ At(line, e + 2) = " "
                        THEN e + 3 ELSE e + 1,
                      Len(line)),
   ts      |-> SubSeq(line, s, e - 1)]

AltPick(line, s, E) ==
  IF E = {} THEN NoMatch ELSE AltGroups(line, s, SetMax(E))

\* ALT_CONFIG_PATTERN anchored at start position s: the longest timestamp
\* after which the rest matches.
AltAt(line, s) == AltPick(line, s, AltEnds(line, s))

\* re.search(ALT_CONFIG_PATTERN, line) (group 1 is ts, group 4 is title).
ALT_CONFIG_PATTERN(line) ==
  LET S == {s \in 1..Len(line) : AltAt(line, s).matched}
  IN IF S = {} THEN NoMatch ELSE AltAt(line, SetMin(S))

\* ------------------------------------------------- timestamp conversion
\* str.split(':').
RECURSIVE Split(_)
Split(s) ==
  LET K == {k \in 1..Len(s) : s[k] = ":"}
  IN IF K = {} THEN <<s>>
     ELSE <<SubSeq(s, 1, SetMin(K) - 1)>>
            \o Split(SubSeq(s, SetMin(K) + 1, Len(s)))

\* int() accepts a part here exactly when it is a non-empty run of digits.
IsIntLiteral(part) == part # <<>> /\ \A k \in 1..Len(part) : IsDigit(part[k])

TsOk(n) == [kind |-> "ok", val |-> n, text |-> <<>>]

TsFail(k, text) == [kind |-> k, val |-> 0, text |-> text]

\* A faulty sum that weighs the hours of a three-part timestamp as minutes.
SecondsOfHoursAsMinutes(time_stamp, parts) ==
  IF Len(parts) = 1 THEN TsOk(parts[1])
  ELSE IF Len(parts) = 2 THEN TsOk(parts[1] * 60 + parts[2])
  ELSE IF Len(parts) = 3
    THEN TsOk(parts[1] * 60 + parts[2] * 60 + parts[3])
  ELSE IF Len(parts) = 4
    THEN TsOk(parts[1] * 86400 + parts[2] * 3600 + parts[3] * 60 + parts[4])
  ELSE TsFail("UnsupportedFormat", time_stamp)

\* Lines 198-207: the weighted sum by number of parts.
SecondsOf(time_stamp, parts) ==
  IF Len(parts) = 1 THEN TsOk(parts[1])
  ELSE IF Len(parts) = 2 THEN TsOk(parts[1] * 60 + parts[2])
  ELSE IF Len(parts) = 3
    THEN TsOk(parts[1] * 3600 + parts[2] * 60 + parts[3])
  ELSE IF Len(parts) = 4
    THEN TsOk(parts[1] * 86400 + parts[2] * 3600 + parts[3] * 60 + parts[4])
  ELSE TsFail("UnsupportedFormat", time_stamp)

\* Line 197: list(map(int, ...)) raises on the first part that is not an
\* integer literal, before the number of parts is looked at.
MapInt(time_stamp, raw, bad) ==
  IF bad # {} THEN TsFail("InvalidLiteral", raw[SetMin(bad)])
  ELSE SecondsOf(time_stamp, [k \in 1..Len(raw) |-> IntOfDigits(raw[k])])

BadParts(raw) == {k \in 1..Len(raw) : ~IsIntLiteral(raw[k])}

SplitInt(time_stamp, raw) == MapInt(time_stamp, raw, BadParts(raw))

time_stamp_to_seconds(time_stamp) == SplitInt(time_stamp, Split(time_stamp))

\* ------------------------------------------------------------------ inputs
\* "#1 - A | 00:00": primary syntax: '#', number, both separators
LinePrimary == <<"#", "1", " ", "-", " ", "A", " ", "|", " ", "0", "0", ":", "0", "0">>

\* " 00:01  A ": alternate syntax, surrounded by blanks
LineAlt == <<" ", "0", "0", ":", "0", "1", " ", " ", "A", " ">>

\* "01:00:03 - B": alternate syntax with a separator, three groups
LineAltSep == <<"0", "1", ":", "0", "0", ":", "0", "3", " ", "-", " ", "B">>

\* " ": a line of whitespace only
LineBlank == <<" ">>

\* "00:05": a timestamp without a title matches neither syntax
LineBad == <<"0", "0", ":", "0", "5">>

\* "00:00:00:00:01 D": alternate syntax, five groups
LineFiveGroups == <<"0", "0", ":", "0", "0", ":", "0", "0", ":", "0", "0", ":", "0", "1", " ", "D">>

\* "00:02: E": alternate syntax, the timestamp ends in a colon
LineColon == <<"0", "0", ":", "0", "2", ":", " ", "E">>

Corpus ==
  {LinePrimary, LineAlt, LineAltSep, LineBlank,
   LineBad, LineFiveGroups, LineColon}

\* A config file: its physical lines, or None when the path is not a file.
Files == {None} \cup {Some(f) : f \in UNION {[1..n -> Corpus] : n \in 0..MaxLines}}

\* len(audio), in milliseconds, of the mp3 main has loaded.
Audios == {3700500}

\* The pass-through metadata of one call.
Bundles ==
  {[album |-> "LP", artist |-> None, composer |-> None,
    total_discs |-> None, disc_number |-> None],
   [album |-> "LP", artist |-> Some("Ann"), composer |-> Some("Bob"),
    total_discs |-> Some(2), disc_number |-> Some(1)]}

\* The strings handed directly to time_stamp_to_seconds.
TsAlphabet == {"0", "9", ":"}

TsStrings ==
  {s \in UNION {[1..n -> TsAlphabet] : n \in 0..MaxTsLen} :
     \A k \in 1..Len(s) - MaxDigits :
       \E j \in k..k + MaxDigits : s[j] = ":"}

\* ------------------------------------------------------------------- state
VARIABLES
  caller,       \* "main": run through main; "direct": process_conf called alone
  audio,        \* main: len(audio) in milliseconds
  file,         \* the config file: Some(lines), or None when it is not a file
  bundle,       \* album, artist, composer, total_discs, disc_number
  duration,     \* process_conf's duration argument (None by default)
  pc,           \* process_conf: "idle", "enter", "loop", "done", "raised"
  line_number,  \* process_conf: physical lines consumed (enumerate(f, 1))
  tracks,       \* process_conf: the accumulator
  endSets,      \* per descriptor, the number of set_track_end calls on it
  err,          \* the exception process_conf raised
  result,       \* Some(list) once process_conf has returned, else None
  mainpc,       \* main: "none", "start", "wait", "tracks", "exit"
  dirCreated,   \* main: os.makedirs(output_path) has run
  exported,     \* process_tracks: the tracks exported so far
  idx,          \* process_tracks: tracks handled so far (the loop's i - 1)
  tsIn,         \* argument of a direct call of time_stamp_to_seconds
  tsOut,        \* its outcome
  tspc          \* "idle", "call", "returned"

inputs == <<caller, audio, file, bundle>>

confVars == <<pc, line_number, tracks, endSets, err, result>>

mainVars == <<mainpc, dirCreated, exported, idx>>

tsVars == <<tsIn, tsOut, tspc>>

vars == <<inputs, duration, confVars, mainVars, tsVars>>

\* --------------------------------------------------------------- TrackInfo
\* TrackInfo.__init__.
TrackInfo(name, track_number, track_start, track_end, b) ==
  [name |-> name, track_number |-> track_number,
   track_start |-> track_start, track_end |-> track_end,
   album |-> b.album, artist |-> b.artist, composer |-> b.composer,
   total_discs |-> b.total_discs, disc_number |-> b.disc_number]

\* A faulty set_track_end that drops the assignment.
set_track_end_dropped(track, time_end) == track

\* TrackInfo.set_track_end.
set_track_end(track, time_end) == [track EXCEPT !.track_end = time_end]

\* ------------------------------------------------------------ process_conf
NoErr == [kind |-> "none", line_number |-> 0, text |-> <<>>]

\* raise FileNotFoundError(...), line 148.
FileNotFoundError == [kind |-> "FileNotFound", line_number |-> 0, text |-> <<>>]

\* A faulty parse error that numbers the lines from 0 (enumerate(f)).
LineParseErrorZeroBased(n, line) ==
  [kind |-> "LineParse", line_number |-> n - 1, text |-> line]

\* raise ValueError(f'Failed to parse config: line #{line_number} - {line}').
LineParseError(n, line) ==
  [kind |-> "LineParse", line_number |-> n, text |-> line]

\* The ValueError time_stamp_to_seconds raised, passing through process_conf.
TimestampError(conv) ==
  [kind |-> conv.kind, line_number |-> 0, text |-> conv.text]

\* A faulty loop without the blank-line check.
SkipLineNever(line) == FALSE

\* `if not line: continue`.
SkipLine(line) == line = <<>>

\* Lines 162-169: the fields taken from the match.  The fields of the
\* primary pattern are used whenever it matches; otherwise the track number
\* is the loop's line number.
FieldsOf(n, prim, alt) ==
  IF prim.matched
    THEN [matched |-> TRUE, syntax |-> "primary",
          track_num |-> IntOfDigits(prim.num),
          track_name |-> prim.title, time_stamp_str |-> prim.ts]
  ELSE IF alt.matched
    THEN [matched |-> TRUE, syntax |-> "alternate", track_num |-> n,
          track_name |-> alt.title, time_stamp_str |-> alt.ts]
  ELSE [matched |-> FALSE, syntax |-> "none", track_num |-> 0,
        track_name |-> <<>>, time_stamp_str |-> <<>>]

\* Lines 157-169: the primary pattern is searched first, the alternate one
\* only counts when the primary one fails.
LineFields(n, line) ==
  FieldsOf(n, CONFIG_PATTERN(line), ALT_CONFIG_PATTERN(line))

\* A faulty close that sets the end of every descriptor, not of the last.
CloseAll(ts, time_end) ==
  [k \in 1..Len(ts) |-> [ts[k] EXCEPT !.track_end = time_end]]

\* Lines 173-174: `if tracks: tracks[-1].set_track_end(time_end)`.
CloseLast(ts, time_end) ==
  IF ts = <<>> THEN ts
  ELSE [ts EXCEPT ![Len(ts)] = set_track_end(ts[Len(ts)], time_end)]

\* The same step on the call counts.
CountCloseLast(cs) ==
  IF cs = <<>> THEN cs ELSE [cs EXCEPT ![Len(cs)] = cs[Len(cs)] + 1]

\* A faulty descriptor born closed, its end set to its own start.
OpenTrackClosed(fields, time_stamp_sec, b) ==
  TrackInfo(Strip(fields.track_name), fields.track_num, time_stamp_sec,
            Some(time_stamp_sec), b)

\* A faulty descriptor with track_number and track_start swapped.
OpenTrackSwapped(fields, time_stamp_sec, b) ==
  TrackInfo(Strip(fields.track_name), time_stamp_sec, fields.track_num,
            None, b)

\* Lines 176-186: the descriptor built for a line, its end still unknown.
OpenTrack(fields, time_stamp_sec, b) ==
  TrackInfo(Strip(fields.track_name), fields.track_num, time_stamp_sec,
            None, b)

\* Lines 147-151: the path check and the empty accumulator.
process_conf_open ==
  /\ pc = "enter"
  /\ IF file = None
       THEN /\ pc' = "raised"
            /\ err' = FileNotFoundError
            /\ UNCHANGED <<line_number, tracks, endSets>>
       ELSE /\ pc' = "loop"
            /\ tracks' = <<>>
            /\ endSets' = <<>>
            /\ line_number' = 0
            /\ err' = err
  /\ UNCHANGED <<inputs, duration, result, mainVars, tsVars>>

\* Lines 171-187: the timestamp is converted; on success the previous
\* descriptor is closed and the new one appended.
LineSequence(fields, conv) ==
  IF conv.kind # "ok"
    THEN /\ pc' = "raised"
         /\ err' = TimestampError(conv)
         /\ UNCHANGED <<tracks, endSets>>
  ELSE /\ tracks' = Append(CloseLast(tracks, Some(conv.val)),
                           OpenTrack(fields, conv.val, bundle))
       /\ endSets' = Append(CountCloseLast(endSets), 0)
       /\ UNCHANGED <<pc, err>>

\* Lines 157-187 for a non-empty line.
LineParse(n, line, fields) ==
  IF ~fields.matched
    THEN /\ pc' = "raised"
         /\ err' = LineParseError(n, line)
         /\ UNCHANGED <<tracks, endSets>>
  ELSE LineSequence(fields, time_stamp_to_seconds(fields.time_stamp_str))

\* Lines 153-187 for the stripped line numbered n.
LineBody(n, line) ==
  IF SkipLine(line)
    THEN UNCHANGED <<pc, tracks, endSets, err>>
  ELSE LineParse(n, line, LineFields(n, line))

\* Lines 152-187: one iteration of the loop over the file's lines.
process_conf_line ==
  /\ pc = "loop"
  /\ line_number < Len(file[1])
  /\ line_number' = line_number + 1
  /\ LineBody(line_number + 1, Strip(file[1][line_number + 1]))
  /\ UNCHANGED <<inputs, duration, result, mainVars, tsVars>>

\* A faulty end of file that returns without closing the last descriptor.
process_conf_return_unclosed ==
  /\ pc = "loop"
  /\ line_number = Len(file[1])
  /\ result' = Some(tracks)
  /\ pc' = "done"
  /\ UNCHANGED <<inputs, duration, line_number, tracks, endSets, err,
                 mainVars, tsVars>>

\* Lines 189-192: the end of the file.
process_conf_return ==
  /\ pc = "loop"
  /\ line_number = Len(file[1])
  /\ tracks' = CloseLast(tracks, duration)
  /\ endSets' = CountCloseLast(endSets)
  /\ result' = Some(tracks')
  /\ pc' = "done"
  /\ UNCHANGED <<inputs, duration, line_number, err, mainVars, tsVars>>

\* -------------------------------------------------------------------- main
\* Lines 78-90: with the mp3 loaded, process_conf is called with
\* duration = len(audio) // 1000.
main_begin ==
  /\ mainpc = "start"
  /\ duration' = Some(audio \div 1000)
  /\ pc' = "enter"
  /\ mainpc' = "wait"
  /\ UNCHANGED <<inputs, line_number, tracks, endSets, err, result,
                 dirCreated, exported, idx, tsVars>>

\* Faulty except clauses that print the error and do not return.
main_except_falls_through ==
  /\ mainpc = "wait"
  /\ pc = "raised"
  /\ dirCreated' = TRUE
  /\ idx' = 0
  /\ mainpc' = "exit"
  /\ UNCHANGED <<inputs, duration, confVars, exported, tsVars>>

\* Lines 92-97: both except clauses print the error and return.
main_except ==
  /\ mainpc = "wait"
  /\ pc = "raised"
  /\ mainpc' = "exit"
  /\ UNCHANGED <<inputs, duration, confVars, dirCreated, exported, idx, tsVars>>

\* Lines 91, 99-102: process_conf returned; the output directory is made
\* and process_tracks is entered.
main_output ==
  /\ mainpc = "wait"
  /\ pc = "done"
  /\ dirCreated' = TRUE
  /\ idx' = 0
  /\ mainpc' = "tracks"
  /\ UNCHANGED <<inputs, duration, confVars, exported, tsVars>>

\* Characters re.sub(r'[\\/*?:"<>|]', "", track.name) removes.
Forbidden == {"\\", "/", "*", "?", ":", "\"", "<", ">", "|"}

Sanitize(name) == SelectSeq(name, LAMBDA c : c \notin Forbidden)

\* `if track.x:` writes a tag only for a value that is neither None nor falsy.
TagStr(opt) == IF opt # None /\ opt[1] # "" THEN opt ELSE None

TagInt(opt) == IF opt # None /\ opt[1] # 0 THEN opt ELSE None

\* Lines 110-133: the file exported for one track.
Export(track, audioLen) ==
  [path        |-> Sanitize(track.name),
   start_ms    |-> track.track_start * 1000,
   end_ms      |-> IF track.track_end # None
                     THEN track.track_end[1] * 1000 ELSE audioLen,
   album       |-> track.album,
   composer    |-> TagStr(track.composer),
   discnumber  |-> TagInt(track.disc_number),
   totaldiscs  |-> TagInt(track.total_discs),
   tracknumber |-> track.track_number,
   tracktitle  |-> track.name,
   artist      |-> TagStr(track.artist)]

\* Lines 108-133: one iteration of process_tracks.
process_tracks_step ==
  /\ mainpc = "tracks"
  /\ idx < Len(result[1])
  /\ exported' = Append(exported, Export(result[1][idx + 1], audio))
  /\ idx' = idx + 1
  /\ UNCHANGED <<inputs, duration, confVars, mainpc, dirCreated, tsVars>>

\* Line 134: all tracks handled.
process_tracks_end ==
  /\ mainpc = "tracks"
  /\ idx = Len(result[1])
  /\ mainpc' = "exit"
  /\ UNCHANGED <<inputs, duration, confVars, dirCreated, exported, idx, tsVars>>

\* ----------------------------------------------------------- specification
Init ==
  /\ caller \in {"main", "direct"}
  /\ file \in Files
  /\ bundle \in Bundles
  /\ audio \in Audios
  /\ duration = None
  /\ IF caller = "main"
       THEN pc = "idle" /\ mainpc = "start"
       ELSE pc = "enter" /\ mainpc = "none"
  /\ line_number = 0
  /\ tracks = <<>>
  /\ endSets = <<>>
  /\ err = NoErr
  /\ result = None
  /\ dirCreated = FALSE
  /\ exported = <<>>
  /\ idx = 0
  /\ tsIn = <<>>
  /\ tsOut = TsFail("none", <<>>)
  /\ tspc = "idle"

Next ==
  \/ main_begin
  \/ process_conf_open
  \/ process_conf_line
  \/ process_conf_return
  \/ main_except
  \/ main_output
  \/ process_tracks_step
  \/ process_tracks_end

Spec == Init /\ [][Next]_vars

\* A direct call of time_stamp_to_seconds on a string of digits and colons.
ts_call ==
  /\ tspc = "call"
  /\ tsOut' = time_stamp_to_seconds(tsIn)
  /\ tspc' = "returned"
  /\ UNCHANGED <<inputs, duration, confVars, mainVars, tsIn>>

InitTs ==
  /\ caller = "direct"
  /\ audio \in Audios
  /\ file = None
  /\ bundle \in Bundles
  /\ duration = None
  /\ pc = "idle"
  /\ mainpc = "none"
  /\ line_number = 0
  /\ tracks = <<>>
  /\ endSets = <<>>
  /\ err = NoErr
  /\ result = None
  /\ dirCreated = FALSE
  /\ exported = <<>>
  /\ idx = 0
  /\ tsIn \in TsStrings
  /\ tsOut = TsFail("none", <<>>)
  /\ tspc = "call"

NextTs == ts_call

SpecTs == InitTs /\ [][NextTs]_vars

\* ------------------------------------------------------- the config's lines
\* Physical line numbers of the non-empty lines of f.
NonEmpty(f) == {k \in 1..Len(f) : Strip(f[k]) # <<>>}

\* The physical line number of the k-th non-empty line of f.
Kth(f, k) ==
  CHOOSE j \in NonEmpty(f) : Cardinality({m \in NonEmpty(f) : m <= j}) = k

\* What process_conf's parsing makes of each line of the corpus: the fields
\* of the stripped line (its track number left aside, as it depends on the
\* line's place) and the conversion of its timestamp.
CorpusFields ==
  {<<l, LineFields(0, Strip(l)),
        time_stamp_to_seconds(LineFields(0, Strip(l)).time_stamp_str)>> :
     l \in Corpus}

CorpusEntry(l) == CHOOSE e \in CorpusFields : e[1] = l

FieldsAt(f, k) == CorpusEntry(f[k])[2]

SecondsAt(f, k) == CorpusEntry(f[k])[3]

\* Line k matches one of the two syntaxes and its timestamp converts.
WellFormed(f, k) == FieldsAt(f, k).matched /\ SecondsAt(f, k).kind = "ok"

\* ------------------------------------------------------------------ claims

\* C1: with a supplied total duration, every descriptor of a non-empty
\* sequence returned by process_conf has a track_end, and each descriptor's
\* track_end equals the next descriptor's track_start.
C1_BoundaryCompleteness ==
  (result # None /\ duration # None /\ result[1] # <<>>) =>
    /\ \A k \in 1..Len(result[1]) : result[1][k].track_end # None
    /\ \A k \in 1..Len(result[1]) - 1 :
         result[1][k].track_end = Some(result[1][k + 1].track_start)

\* process_conf returned at least two descriptors for a supplied duration.
C1_Witness == result # None /\ duration # None /\ Len(result[1]) >= 2

\* C2: the last descriptor of a returned non-empty sequence ends at the
\* duration argument; a config of one non-empty line gives one descriptor
\* starting at that line's timestamp; without a duration the last descriptor
\* is the only one whose track_end is absent.
C2_FinalTrack ==
  (result # None /\ result[1] # <<>>) =>
    /\ result[1][Len(result[1])].track_end = duration
    /\ duration = None =>
         \A k \in 1..Len(result[1]) - 1 : result[1][k].track_end # None
    /\ Cardinality(NonEmpty(file[1])) = 1 =>
         /\ Len(result[1]) = 1
         /\ result[1][1].track_start = SecondsAt(file[1], Kth(file[1], 1)).val

\* process_conf returned several descriptors and no duration was supplied.
C2_Witness == result # None /\ duration = None /\ Len(result[1]) >= 2

\* Every non-empty line of f takes the alternate-syntax branch.
AllAlternate(f) == \A k \in NonEmpty(f) : FieldsAt(f, k).syntax = "alternate"

\* C3: in a config whose lines all use the alternate syntax, the descriptor
\* of the k-th non-empty line has track_number k, blank lines not counting.
C3_TrackNumberInference ==
  (result # None /\ AllAlternate(file[1])) =>
    \A k \in 1..Len(result[1]) : result[1][k].track_number = k

\* Line n is the first line of f matching neither syntax.
FirstUnmatched(f, n) ==
  /\ n \in NonEmpty(f)
  /\ ~FieldsAt(f, n).matched
  /\ \A k \in NonEmpty(f) : k < n => FieldsAt(f, k).matched

\* C4: when line n is the first line matching neither syntax and the lines
\* before it are well-formed, process_conf stops at line n, raises the parse
\* failure carrying line number n and the stripped line, and returns nothing.
C4_LineParseFailure ==
  file # None =>
    \A n \in 1..Len(file[1]) :
      (/\ FirstUnmatched(file[1], n)
       /\ \A k \in NonEmpty(file[1]) : k < n => WellFormed(file[1], k)) =>
        /\ result = None
        /\ pc # "done"
        /\ line_number <= n
        /\ pc = "raised" <=> line_number = n
        /\ pc = "raised" =>
             err = [kind |-> "LineParse", line_number |-> n,
                    text |-> Strip(file[1][n])]

\* The third line failed to parse after two well-formed lines.
C4_Witness ==
  pc = "raised" /\ err.kind = "LineParse" /\ err.line_number = 3
    /\ Len(tracks) = 2

\* The string is one or more colon-separated non-empty runs of digits.
IntGroups(s) ==
  /\ s # <<>>
  /\ s[1] # ":"
  /\ s[Len(s)] # ":"
  /\ \A k \in 1..Len(s) - 1 : ~(s[k] = ":" /\ s[k + 1] = ":")

\* The number of groups of a string of groups; the empty string has none.
GroupCount(s) ==
  IF s = <<>> THEN 0 ELSE 1 + Cardinality({k \in 1..Len(s) : s[k] = ":"})

\* Seconds, minutes, hours, days.
Weight(k) == CASE k = 1 -> 1 [] k = 2 -> 60 [] k = 3 -> 3600 [] k = 4 -> 86400

\* The sum of the last n groups, the rightmost weighted 1.
RECURSIVE WeightedSum(_, _)
WeightedSum(groups, n) ==
  IF n = 0 THEN 0
  ELSE IntOfDigits(groups[Len(groups) - n + 1]) * Weight(n)
         + WeightedSum(groups, n - 1)

\* One to four groups convert to the positional weighted sum.
C5_Sum ==
  (IntGroups(tsIn) /\ GroupCount(tsIn) \in 1..4) =>
    tsOut = TsOk(WeightedSum(Split(tsIn), GroupCount(tsIn)))

\* C5 as claimed: one to four groups give the weighted sum, and every
\* string with another number of groups, the empty string included, fails
\* with the unsupported-format error carrying the string.
C5_Original ==
  tspc = "returned" =>
    /\ C5_Sum
    /\ (tsIn = <<>> \/ (IntGroups(tsIn) /\ GroupCount(tsIn) > 4)) =>
         tsOut = TsFail("UnsupportedFormat", tsIn)

\* C5: one to four groups give the positional weighted sum with no range
\* check; five or more groups fail with the unsupported-format error
\* carrying the string; the empty string fails in int() instead.
C5_TimestampConversion ==
  tspc = "returned" =>
    /\ C5_Sum
    /\ (IntGroups(tsIn) /\ GroupCount(tsIn) > 4) =>
         tsOut = TsFail("UnsupportedFormat", tsIn)
    /\ tsIn = <<>> => tsOut = TsFail("InvalidLiteral", <<>>)

\* A string of five groups was rejected.
C5_Witness ==
  tspc = "returned" /\ IntGroups(tsIn) /\ GroupCount(tsIn) = 5
    /\ tsOut.kind = "UnsupportedFormat"

\* C6: a returned sequence has one descriptor per non-empty line, in file
\* order; process_conf raises nothing when every non-empty line is
\* well-formed, so a config without non-empty lines returns the empty
\* sequence.
C6_OnePerLine ==
  file # None =>
    /\ result # None =>
         /\ Len(result[1]) = Cardinality(NonEmpty(file[1]))
         /\ \A k \in 1..Len(result[1]) :
              /\ result[1][k].track_start
                   = SecondsAt(file[1], Kth(file[1], k)).val
              /\ result[1][k].name
                   = Strip(FieldsAt(file[1], Kth(file[1], k)).track_name)
    /\ (\A k \in NonEmpty(file[1]) : WellFormed(file[1], k)) => pc # "raised"
    /\ (NonEmpty(file[1]) = {} /\ pc = "done") => result = Some(<<>>)

\* Two descriptors were returned for a file of three lines, one blank.
C6_Witness == result # None /\ Len(result[1]) = 2 /\ Len(file[1]) = 3

\* C7: in main, once process_conf has raised, no output directory is made,
\* process_tracks is not entered and nothing is exported; all of that
\* happens only after process_conf returned the complete sequence.
C7_NoExportAfterFailure ==
  /\ pc = "raised" =>
       ~dirCreated /\ exported = <<>> /\ mainpc # "tracks"
  /\ (dirCreated \/ exported # <<>> \/ mainpc = "tracks") =>
       /\ pc = "done"
       /\ result = Some(tracks)
       /\ Len(tracks) = Cardinality(NonEmpty(file[1]))

\* main ended after process_conf raised with descriptors already built.
C7_Witness ==
  caller = "main" /\ mainpc = "exit" /\ pc = "raised" /\ Len(tracks) >= 1

ConfigOrdered(f) ==
  \A j, k \in NonEmpty(f) : j < k => SecondsAt(f, j).val <= SecondsAt(f, k).val

NonDecreasing(r) ==
  \A k \in 1..Len(r) - 1 : r[k].track_start <= r[k + 1].track_start

\* C9 as claimed: track_start never decreases along a returned sequence, and
\* with a supplied duration no descriptor before the last ends before it
\* starts.
C9_Original ==
  result # None =>
    /\ NonDecreasing(result[1])
    /\ duration # None =>
         \A k \in 1..Len(result[1]) - 1 :
           result[1][k].track_end[1] >= result[1][k].track_start

\* C9: track_start is non-decreasing along a returned sequence exactly when
\* the config's timestamps are non-decreasing in file order (the parser does
\* not check them); when they are, no descriptor before the last ends
\* before it starts.
C9_TemporalOrder ==
  result # None =>
    /\ NonDecreasing(result[1]) <=> ConfigOrdered(file[1])
    /\ ConfigOrdered(file[1]) =>
         \A k \in 1..Len(result[1]) - 1 :
           /\ result[1][k].track_end # None
           /\ result[1][k].track_end[1] >= result[1][k].track_start

\* Three descriptors with increasing starts were returned.
C9_Witness ==
  /\ result # None
  /\ Len(result[1]) = 3
  /\ result[1][1].track_start < result[1][2].track_start
  /\ result[1][2].track_start < result[1][3].track_start

\* A step leaves every existing descriptor in place with all fields but
\* track_end unchanged, changes no descriptor but the last one, and changes
\* no descriptor whose track_end has been set.
C10_FrameStep ==
  /\ Len(tracks') >= Len(tracks)
  /\ \A k \in 1..Len(tracks) :
       /\ [tracks'[k] EXCEPT !.track_end = None]
            = [tracks[k] EXCEPT !.track_end = None]
       /\ k < Len(tracks) => tracks'[k] = tracks[k]
       /\ endSets[k] >= 1 => tracks'[k] = tracks[k]

\* set_track_end has been called once on every descriptor but the one still
\* open, and never on that one.
C10_EndOnce ==
  /\ Len(endSets) = Len(tracks)
  /\ \A k \in 1..Len(tracks) :
       endSets[k]
         = (IF k = Len(tracks) /\ pc \in {"loop", "raised"} THEN 0 ELSE 1)

\* C10: an appended descriptor keeps its name, number, start and
\* pass-through fields; its track_end is assigned exactly once, by the step
\* for the next non-empty line or by the end of the file; a later line
\* touches no descriptor but the one just before it.
C10_DescriptorFrame == []C10_EndOnce /\ [][C10_FrameStep]_vars

\* Three descriptors were returned, the first closed two lines earlier.
C10_Witness == result # None /\ Len(result[1]) = 3 /\ endSets = <<1, 1, 1>>

====
